---- MODULE Spec2Model ----
(***************************************************************************)
(* Nodisan CLI (src/index.js): the Kafka commands kafka:create,            *)
(* kafka:start, kafka:topics and kafka:migrate.                            *)
(*                                                                         *)
(* Strings are sequences of one-character strings, so that split, trim,    *)
(* join and filter(Boolean) are modelled by what they do.  Every `await`   *)
(* of a handler is a separate step; the code between two awaits is one     *)
(* atomic action.  Each invocation is one OS process p; docker and the     *)
(* file topics.txt are the state shared between invocations.               *)
(***************************************************************************)
EXTENDS Integers, Sequences, FiniteSets, TLC

(* ------------------------------ bounds --------------------------------- *)

\* Longest answer typed at the kafka:topics prompt (characters).
MaxInputLen == 4

\* Longest topics.txt content the model lets kafka:topics produce (characters).
MaxFileLen == 5

\* Number of CLI processes that may be invoked.
NumProcs == 2

\* Longest list drawn for the pure Merge / Save / Load checks.
MaxListLen == 3

Procs == 1..NumProcs

(* ------------------------- strings and arrays -------------------------- *)

NL == "\n"
COMMA == ","

\* Characters the user can type into the single-line inquirer prompt.
InputChars == {"a", "b", COMMA, " "}

\* What String.prototype.trim() strips.
WhiteSpace == {" ", NL}

\* stdout of `docker ps -q ...` when a container matches: its id and a newline.
ContainerId == <<"i", "d", NL>>

\* A `const` whose declaration has not been reached yet.
Unassigned == <<"undefined">>

Inputs == UNION {[1..n -> InputChars] : n \in 0..MaxInputLen}

\* s.split(sep) for a one-character separator: "" splits into [""].
RECURSIVE Split(_, _)
Split(s, sep) ==
    IF \A i \in 1..Len(s) : s[i] # sep
    THEN <<s>>
    ELSE LET i == CHOOSE k \in 1..Len(s) :
                      s[k] = sep /\ \A j \in 1..(k - 1) : s[j] # sep
         IN  <<SubSeq(s, 1, i - 1)>> \o Split(SubSeq(s, i + 1, Len(s)), sep)

\* s.trim()
Trim(s) ==
    IF \A i \in 1..Len(s) : s[i] \in WhiteSpace
    THEN <<>>
    ELSE LET lo == CHOOSE k \in 1..Len(s) :
                       s[k] \notin WhiteSpace /\ \A j \in 1..(k - 1) : s[j] \in WhiteSpace
             hi == CHOOSE k \in 1..Len(s) :
                       s[k] \notin WhiteSpace /\ \A j \in (k + 1)..Len(s) : s[j] \in WhiteSpace
         IN  SubSeq(s, lo, hi)

\* arr.join(sep)
RECURSIVE Join(_, _)
Join(arr, sep) ==
    IF Len(arr) = 0 THEN <<>>
    ELSE IF Len(arr) = 1 THEN arr[1]
    ELSE arr[1] \o <<sep>> \o Join(Tail(arr), sep)

\* arr.filter(Boolean) on an array of strings: drops the empty strings.
FilterBoolean(arr) == SelectSeq(arr, LAMBDA x : x # <<>>)

\* arr.map(topic => topic.trim())
MapTrim(arr) == [i \in 1..Len(arr) |-> Trim(arr[i])]

\* Array.from(new Set(arr)): the first occurrence of each value, in order.
ArrayFromSet(arr) ==
    LET F[i \in 0..Len(arr)] ==
            IF i = 0 THEN <<>>
            ELSE IF \E j \in 1..(i - 1) : arr[j] = arr[i]
                 THEN F[i - 1]
                 ELSE Append(F[i - 1], arr[i])
    IN  F[Len(arr)]

Range(arr) == {arr[i] : i \in 1..Len(arr)}

(* --------------------------- topic registry ---------------------------- *)

\* answers.topics.split(',').map(topic => topic.trim())
ParseTopics(input) == MapTrim(Split(input, COMMA))

\* A seeded fault: the .filter(Boolean) is missing.
LoadLines_NoFilter(content) == Split(content, NL)

\* fileContent.split('\n').filter(Boolean)
LoadLines(content) == FilterBoolean(Split(content, NL))

\* A seeded fault: the two spreads swapped.
Merge_IncomingFirst(existing, incoming) == ArrayFromSet(incoming \o existing)

\* A seeded fault: the Set dropped, the arrays only concatenated.
Merge_NoSet(existing, incoming) == existing \o incoming

\* Array.from(new Set([...existingTopics, ...newTopics]))
Merge(existing, incoming) == ArrayFromSet(existing \o incoming)

\* combinedTopics.join('\n')
JoinLines(list) == Join(list, NL)

(* -------------------------------- state -------------------------------- *)

VARIABLES
    container,       \* docker's view of kafka-server: "Absent", "Stopped", "Running"
    fileExists,      \* whether topics.txt exists
    fileContent,     \* the characters of topics.txt
    brokerTopics,    \* the topics that exist on the broker
    pc,              \* pc[p]: the await at which process p is suspended
    cmd,             \* cmd[p]: the command process p was invoked with
    stdout,          \* createKafkaContainer / startKafkaContainer: const { stdout }
    isRunning,       \* startKafkaContainer: const { stdout: isRunning }
    newTopics,       \* generateTopicsList: const newTopics
    existingTopics,  \* generateTopicsList: let existingTopics
    combinedTopics,  \* generateTopicsList: const combinedTopics
    topicsList,      \* generateTopicsList: const topicsList
    topics,          \* kafkaMigrate: const topics
    idx,             \* kafkaMigrate: position of `for (const topic of topics)`
    calls,           \* calls[p]: the execPromise commands p has issued, in order
    log,             \* log[p]: what p has printed, in order
    atInvoke,        \* history: container and file as they were when p was invoked
    submitted,       \* history: names submitted by completed kafka:topics runs
    fnStep,          \* pure checks: which function has been applied
    fnExisting,      \* pure checks: the registry argument
    fnIncoming,      \* pure checks: the incoming argument
    fnResult         \* pure checks: the value returned

shared == <<container, fileExists, fileContent, brokerTopics>>
containerLocals == <<stdout, isRunning>>
topicsLocals == <<newTopics, existingTopics, combinedTopics, topicsList>>
migrateLocals == <<topics, idx>>
fnVars == <<fnStep, fnExisting, fnIncoming, fnResult>>
vars == <<container, fileExists, fileContent, brokerTopics, pc, cmd, stdout, isRunning,
          newTopics, existingTopics, combinedTopics, topicsList, topics, idx,
          calls, log, atInvoke, submitted, fnStep, fnExisting, fnIncoming, fnResult>>

\* One execPromise command.
Call(op, topic) == [op |-> op, topic |-> topic]
PsAll == Call("docker ps -aq", <<>>)
PsRunning == Call("docker ps -q", <<>>)
DockerRun == Call("docker run -d", <<>>)
DockerStart == Call("docker start", <<>>)
CreateTopic(topic) == Call("kafka-topics.sh --create", topic)

\* One console.log (stream "out") or console.error (stream "err").
Out(msg) == [stream |-> "out", msg |-> msg]
Err(msg) == [stream |-> "err", msg |-> msg]

NoSnapshot ==
    [container |-> "-", fileExists |-> FALSE, fileContent |-> <<>>, brokerTopics |-> {}]
Snapshot ==
    [container |-> container, fileExists |-> fileExists, fileContent |-> fileContent,
     brokerTopics |-> brokerTopics]

AllIdle == \A q \in Procs : pc[q] = "idle"

\* The first occurrence of each name of seq, in order (history bookkeeping).
RECURSIVE FirstSeen(_)
FirstSeen(seq) ==
    IF seq = <<>> THEN <<>>
    ELSE LET init == FirstSeen(SubSeq(seq, 1, Len(seq) - 1))
             last == seq[Len(seq)]
         IN  IF last \in Range(init) THEN init ELSE Append(init, last)

Init ==
    /\ container = "Absent"
    /\ fileExists = FALSE
    /\ fileContent = <<>>
    /\ brokerTopics = {}
    /\ pc = [p \in Procs |-> "idle"]
    /\ cmd = [p \in Procs |-> "-"]
    /\ stdout = [p \in Procs |-> Unassigned]
    /\ isRunning = [p \in Procs |-> Unassigned]
    /\ newTopics = [p \in Procs |-> <<>>]
    /\ existingTopics = [p \in Procs |-> <<>>]
    /\ combinedTopics = [p \in Procs |-> <<>>]
    /\ topicsList = [p \in Procs |-> <<>>]
    /\ topics = [p \in Procs |-> <<>>]
    /\ idx = [p \in Procs |-> 0]
    /\ calls = [p \in Procs |-> <<>>]
    /\ log = [p \in Procs |-> <<>>]
    /\ atInvoke = [p \in Procs |-> NoSnapshot]
    /\ submitted = <<>>
    /\ fnStep = "-"
    /\ fnExisting = <<>>
    /\ fnIncoming = <<>>
    /\ fnResult = <<>>

\* commander runs the action of the command named on the command line.
Begin(p, command, at) ==
    /\ pc[p] = "idle"
    /\ pc' = [pc EXCEPT ![p] = at]
    /\ cmd' = [cmd EXCEPT ![p] = command]
    /\ atInvoke' = [atInvoke EXCEPT ![p] = Snapshot]

\* The handler returns (or its catch has run): nothing is pending in p.
Finish(p, printed) ==
    /\ pc' = [pc EXCEPT ![p] = "done"]
    /\ log' = [log EXCEPT ![p] = log[p] \o printed]

\* catch (error) { console.error(chalk.red('Error:'), error.message); }
Catch(p) ==
    /\ Finish(p, <<Err("error.message")>>)
    /\ UNCHANGED <<shared, cmd, containerLocals, topicsLocals, migrateLocals,
                   calls, atInvoke, submitted, fnVars>>

(* ----------------------------- kafka:create ---------------------------- *)

\* The action starts and awaits `docker ps -aq -f name=kafka-server`.
CreateInvoke(p) ==
    /\ Begin(p, "kafka:create", "create:ps-aq")
    /\ calls' = [calls EXCEPT ![p] = <<PsAll>>]
    /\ UNCHANGED <<shared, containerLocals, topicsLocals, migrateLocals, log,
                   submitted, fnVars>>

\* A seeded fault: an existing container is removed (`docker rm -f`) and
\* created again instead of being left alone.
CreateProbed_Recreates(p) ==
    /\ pc[p] = "create:ps-aq"
    /\ stdout' = [stdout EXCEPT ![p] = IF container = "Absent" THEN <<>> ELSE ContainerId]
    /\ container' = "Absent"
    /\ pc' = [pc EXCEPT ![p] = "create:run"]
    /\ log' = [log EXCEPT ![p] = log[p] \o <<Out("Creating the container")>>]
    /\ calls' = [calls EXCEPT ![p] = Append(calls[p], DockerRun)]
    /\ UNCHANGED <<fileExists, fileContent, brokerTopics, cmd, isRunning, topicsLocals,
                   migrateLocals, atInvoke, submitted, fnVars>>

\* A seeded fault: the `if (stdout.trim())` early return is missing.
CreateProbed_NoCheck(p) ==
    /\ pc[p] = "create:ps-aq"
    /\ stdout' = [stdout EXCEPT ![p] = IF container = "Absent" THEN <<>> ELSE ContainerId]
    /\ pc' = [pc EXCEPT ![p] = "create:run"]
    /\ log' = [log EXCEPT ![p] = log[p] \o <<Out("Creating the container")>>]
    /\ calls' = [calls EXCEPT ![p] = Append(calls[p], DockerRun)]
    /\ UNCHANGED <<shared, cmd, isRunning, topicsLocals, migrateLocals, atInvoke,
                   submitted, fnVars>>

\* The probe resolves: return if the container exists, else await `docker run`.
CreateProbed(p) ==
    /\ pc[p] = "create:ps-aq"
    /\ LET out == IF container = "Absent" THEN <<>> ELSE ContainerId
       IN  /\ stdout' = [stdout EXCEPT ![p] = out]
           /\ IF Trim(out) # <<>>
              THEN /\ Finish(p, <<Out("already exists")>>)
                   /\ UNCHANGED calls
              ELSE /\ pc' = [pc EXCEPT ![p] = "create:run"]
                   /\ log' = [log EXCEPT ![p] = log[p] \o <<Out("Creating the container")>>]
                   /\ calls' = [calls EXCEPT ![p] = Append(calls[p], DockerRun)]
    /\ UNCHANGED <<shared, cmd, isRunning, topicsLocals, migrateLocals, atInvoke,
                   submitted, fnVars>>

\* `docker run -d --name kafka-server ...` succeeds: the container is created
\* and running.  docker refuses a name that is already taken.
CreateRan(p) ==
    /\ pc[p] = "create:run"
    /\ container = "Absent"
    /\ container' = "Running"
    /\ Finish(p, <<Out("created and running")>>)
    /\ UNCHANGED <<fileExists, fileContent, brokerTopics, cmd, containerLocals, topicsLocals,
                   migrateLocals, calls, atInvoke, submitted, fnVars>>

\* `docker run` fails.  docker may have created the container before failing
\* to start it (port 9092 taken), which leaves it created and stopped.
CreateRunFailed(p) ==
    /\ pc[p] = "create:run"
    /\ \E left \in {container} \cup (IF container = "Absent" THEN {"Stopped"} ELSE {}) :
           container' = left
    /\ Finish(p, <<Err("error.message")>>)
    /\ UNCHANGED <<fileExists, fileContent, brokerTopics, cmd, containerLocals, topicsLocals,
                   migrateLocals, calls, atInvoke, submitted, fnVars>>

\* A seeded fault: the probe's rejection is caught on its own and the handler
\* goes on to `docker run`.
CreateProbeFailed_Proceeds(p) ==
    /\ pc[p] = "create:ps-aq"
    /\ pc' = [pc EXCEPT ![p] = "create:run"]
    /\ log' = [log EXCEPT ![p] = log[p] \o <<Err("error.message")>>]
    /\ calls' = [calls EXCEPT ![p] = Append(calls[p], DockerRun)]
    /\ UNCHANGED <<shared, cmd, containerLocals, topicsLocals, migrateLocals,
                   atInvoke, submitted, fnVars>>

\* The probe rejects (docker missing or its daemon unreachable).
CreateProbeFailed(p) ==
    /\ pc[p] = "create:ps-aq"
    /\ Catch(p)

(* ----------------------------- kafka:start ------------------------------ *)

\* The action starts and awaits `docker ps -aq -f name=kafka-server`.
StartInvoke(p) ==
    /\ Begin(p, "kafka:start", "start:ps-aq")
    /\ calls' = [calls EXCEPT ![p] = <<PsAll>>]
    /\ UNCHANGED <<shared, containerLocals, topicsLocals, migrateLocals, log,
                   submitted, fnVars>>

\* A seeded fault: the `if (!stdout.trim())` early return is missing.
StartProbed_NoCheck(p) ==
    /\ pc[p] = "start:ps-aq"
    /\ stdout' = [stdout EXCEPT ![p] = IF container = "Absent" THEN <<>> ELSE ContainerId]
    /\ pc' = [pc EXCEPT ![p] = "start:ps-q"]
    /\ calls' = [calls EXCEPT ![p] = Append(calls[p], PsRunning)]
    /\ UNCHANGED <<shared, cmd, isRunning, topicsLocals, migrateLocals, log,
                   atInvoke, submitted, fnVars>>

\* The existence probe resolves: report the missing container and return,
\* else await `docker ps -q -f name=kafka-server`.
StartProbed(p) ==
    /\ pc[p] = "start:ps-aq"
    /\ LET out == IF container = "Absent" THEN <<>> ELSE ContainerId
       IN  /\ stdout' = [stdout EXCEPT ![p] = out]
           /\ IF Trim(out) = <<>>
              THEN /\ Finish(p, <<Err("The container does not exist")>>)
                   /\ UNCHANGED calls
              ELSE /\ pc' = [pc EXCEPT ![p] = "start:ps-q"]
                   /\ calls' = [calls EXCEPT ![p] = Append(calls[p], PsRunning)]
                   /\ UNCHANGED log
    /\ UNCHANGED <<shared, cmd, isRunning, topicsLocals, migrateLocals, atInvoke,
                   submitted, fnVars>>

\* A seeded fault: the test is inverted, `if (!isRunning.trim())`.
StartProbedRunning_Inverted(p) ==
    /\ pc[p] = "start:ps-q"
    /\ LET out == IF container = "Running" THEN ContainerId ELSE <<>>
       IN  /\ isRunning' = [isRunning EXCEPT ![p] = out]
           /\ IF Trim(out) = <<>>
              THEN /\ Finish(p, <<Out("already running")>>)
                   /\ UNCHANGED calls
              ELSE /\ pc' = [pc EXCEPT ![p] = "start:start"]
                   /\ log' = [log EXCEPT ![p] = log[p] \o <<Out("Starting the container")>>]
                   /\ calls' = [calls EXCEPT ![p] = Append(calls[p], DockerStart)]
    /\ UNCHANGED <<shared, cmd, stdout, topicsLocals, migrateLocals, atInvoke,
                   submitted, fnVars>>

\* A seeded fault: the `if (isRunning.trim())` early return is missing.
StartProbedRunning_NoCheck(p) ==
    /\ pc[p] = "start:ps-q"
    /\ isRunning' = [isRunning EXCEPT ![p] =
                        IF container = "Running" THEN ContainerId ELSE <<>>]
    /\ pc' = [pc EXCEPT ![p] = "start:start"]
    /\ log' = [log EXCEPT ![p] = log[p] \o <<Out("Starting the container")>>]
    /\ calls' = [calls EXCEPT ![p] = Append(calls[p], DockerStart)]
    /\ UNCHANGED <<shared, cmd, stdout, topicsLocals, migrateLocals, atInvoke,
                   submitted, fnVars>>

\* The running probe resolves: return if the container runs, else await
\* `docker start kafka-server`.
StartProbedRunning(p) ==
    /\ pc[p] = "start:ps-q"
    /\ LET out == IF container = "Running" THEN ContainerId ELSE <<>>
       IN  /\ isRunning' = [isRunning EXCEPT ![p] = out]
           /\ IF Trim(out) # <<>>
              THEN /\ Finish(p, <<Out("already running")>>)
                   /\ UNCHANGED calls
              ELSE /\ pc' = [pc EXCEPT ![p] = "start:start"]
                   /\ log' = [log EXCEPT ![p] = log[p] \o <<Out("Starting the container")>>]
                   /\ calls' = [calls EXCEPT ![p] = Append(calls[p], DockerStart)]
    /\ UNCHANGED <<shared, cmd, stdout, topicsLocals, migrateLocals, atInvoke,
                   submitted, fnVars>>

\* `docker start kafka-server` succeeds: docker needs the container to exist.
StartStarted(p) ==
    /\ pc[p] = "start:start"
    /\ container # "Absent"
    /\ container' = "Running"
    /\ Finish(p, <<Out("started")>>)
    /\ UNCHANGED <<fileExists, fileContent, brokerTopics, cmd, containerLocals, topicsLocals,
                   migrateLocals, calls, atInvoke, submitted, fnVars>>

\* Either probe, or `docker start`, rejects; a failed start changes nothing.
StartExecFailed(p) ==
    /\ pc[p] \in {"start:ps-aq", "start:ps-q", "start:start"}
    /\ Catch(p)

(* ----------------------------- kafka:topics ----------------------------- *)

\* What a kafka:topics run would write, given the file as it is now: used
\* only to keep topics.txt within MaxFileLen.
WouldWrite(input) ==
    JoinLines(Merge(IF fileExists THEN LoadLines(fileContent) ELSE <<>>,
                    ParseTopics(input)))

\* The action starts and awaits inquirer.prompt.
TopicsInvoke(p) ==
    /\ Begin(p, "kafka:topics", "topics:prompt")
    /\ UNCHANGED <<shared, containerLocals, topicsLocals, migrateLocals, calls, log,
                   submitted, fnVars>>

\* The prompt resolves with the typed line `input`.  The code runs to its next
\* await: fs.readFile when topics.txt exists, else fs.writeFile of the new list.
TopicsAnswer(p, input) ==
    /\ pc[p] = "topics:prompt"
    /\ Len(WouldWrite(input)) <= MaxFileLen
    /\ LET parsed == ParseTopics(input)
           combined == Merge(<<>>, parsed)
       IN  /\ newTopics' = [newTopics EXCEPT ![p] = parsed]
           /\ IF fileExists
              THEN /\ pc' = [pc EXCEPT ![p] = "topics:readFile"]
                   /\ UNCHANGED <<existingTopics, combinedTopics, topicsList>>
              ELSE /\ pc' = [pc EXCEPT ![p] = "topics:writeFile"]
                   /\ existingTopics' = [existingTopics EXCEPT ![p] = <<>>]
                   /\ combinedTopics' = [combinedTopics EXCEPT ![p] = combined]
                   /\ topicsList' = [topicsList EXCEPT ![p] = JoinLines(combined)]
    /\ UNCHANGED <<shared, cmd, containerLocals, migrateLocals, calls, log, atInvoke,
                   submitted, fnVars>>

\* The prompt resolves with any line the user can type.
TopicsAnswered(p) ==
    /\ pc[p] = "topics:prompt"
    /\ \E input \in Inputs : TopicsAnswer(p, input)

\* fs.readFile resolves; the list is merged and fs.writeFile is awaited.
TopicsRead(p) ==
    /\ pc[p] = "topics:readFile"
    /\ fileExists
    /\ LET existing == LoadLines(fileContent)
           combined == Merge(existing, newTopics[p])
       IN  /\ existingTopics' = [existingTopics EXCEPT ![p] = existing]
           /\ combinedTopics' = [combinedTopics EXCEPT ![p] = combined]
           /\ topicsList' = [topicsList EXCEPT ![p] = JoinLines(combined)]
    /\ pc' = [pc EXCEPT ![p] = "topics:writeFile"]
    /\ UNCHANGED <<shared, cmd, newTopics, containerLocals, migrateLocals, calls, log,
                   atInvoke, submitted, fnVars>>

\* A seeded fault: fs.appendFile in place of fs.writeFile.
TopicsWritten_Appends(p) ==
    /\ pc[p] = "topics:writeFile"
    /\ fileExists' = TRUE
    /\ fileContent' = fileContent \o topicsList[p]
    /\ submitted' = FirstSeen(submitted \o FilterBoolean(newTopics[p]))
    /\ Finish(p, <<Out("Topics file updated successfully")>>)
    /\ UNCHANGED <<container, brokerTopics, cmd, containerLocals, topicsLocals,
                   migrateLocals, calls, atInvoke, fnVars>>

\* fs.writeFile resolves: topics.txt holds topicsList and nothing else.
TopicsWritten(p) ==
    /\ pc[p] = "topics:writeFile"
    /\ fileExists' = TRUE
    /\ fileContent' = topicsList[p]
    /\ submitted' = FirstSeen(submitted \o FilterBoolean(newTopics[p]))
    /\ Finish(p, <<Out("Topics file updated successfully")>>)
    /\ UNCHANGED <<container, brokerTopics, cmd, containerLocals, topicsLocals,
                   migrateLocals, calls, atInvoke, fnVars>>

\* The prompt, fs.readFile or fs.writeFile rejects (the file cannot be opened):
\* the promise chain's .catch prints the error; topics.txt is left as it was.
TopicsFailed(p) ==
    /\ pc[p] \in {"topics:prompt", "topics:readFile", "topics:writeFile"}
    /\ Finish(p, <<Err("err")>>)
    /\ UNCHANGED <<shared, cmd, containerLocals, topicsLocals, migrateLocals,
                   calls, atInvoke, submitted, fnVars>>

(* ----------------------------- kafka:migrate ---------------------------- *)

\* A seeded fault: a missing topics.txt is created (fs.ensureFileSync) before
\* the error is printed.
MigrateNoFile_Touches(p) ==
    /\ ~fileExists
    /\ Begin(p, "kafka:migrate", "done")
    /\ fileExists' = TRUE
    /\ log' = [log EXCEPT ![p] = <<Err("The topics.txt file does not exist")>>]
    /\ UNCHANGED <<container, fileContent, brokerTopics, containerLocals, topicsLocals,
                   migrateLocals, calls, submitted, fnVars>>

\* A seeded fault: the existsSync guard is missing, so fs.readFileSync throws
\* and the catch prints its message.
MigrateNoFile_Unguarded(p) ==
    /\ ~fileExists
    /\ Begin(p, "kafka:migrate", "done")
    /\ log' = [log EXCEPT ![p] = <<Err("error.message")>>]
    /\ UNCHANGED <<shared, containerLocals, topicsLocals, migrateLocals, calls,
                   submitted, fnVars>>

\* topics.txt is missing: the error is printed and the action returns.
MigrateNoFile(p) ==
    /\ ~fileExists
    /\ Begin(p, "kafka:migrate", "done")
    /\ log' = [log EXCEPT ![p] = <<Err("The topics.txt file does not exist")>>]
    /\ UNCHANGED <<shared, containerLocals, topicsLocals, migrateLocals, calls,
                   submitted, fnVars>>

\* fs.readFileSync throws; the catch prints the error.
MigrateReadThrew(p) ==
    /\ fileExists
    /\ Begin(p, "kafka:migrate", "done")
    /\ log' = [log EXCEPT ![p] = <<Err("error.message")>>]
    /\ UNCHANGED <<shared, containerLocals, topicsLocals, migrateLocals, calls,
                   submitted, fnVars>>

\* A seeded fault: progress is kept, the loop starts at the first topic the
\* broker does not hold yet.
MigrateBegun_SkipsCreated(p) ==
    /\ fileExists
    /\ LET loaded == LoadLines(fileContent)
           todo == {i \in 1..Len(loaded) : loaded[i] \notin brokerTopics}
           first == CHOOSE i \in todo : \A j \in todo : i <= j
       IN  /\ topics' = [topics EXCEPT ![p] = loaded]
           /\ IF todo = {}
              THEN /\ Begin(p, "kafka:migrate", "done")
                   /\ UNCHANGED <<idx, calls, log>>
              ELSE /\ Begin(p, "kafka:migrate", "migrate:exec")
                   /\ idx' = [idx EXCEPT ![p] = first]
                   /\ calls' = [calls EXCEPT ![p] = <<CreateTopic(loaded[first])>>]
                   /\ log' = [log EXCEPT ![p] = <<Out("Creating the topic")>>]
    /\ UNCHANGED <<shared, containerLocals, topicsLocals, submitted, fnVars>>

\* A seeded fault: the creations are not awaited one by one
\* (topics.map(topic => execPromise(...))): all are issued at once.
MigrateBegun_AllAtOnce(p) ==
    /\ fileExists
    /\ LET loaded == LoadLines(fileContent)
       IN  /\ topics' = [topics EXCEPT ![p] = loaded]
           /\ IF loaded = <<>>
              THEN /\ Begin(p, "kafka:migrate", "done")
                   /\ UNCHANGED <<idx, calls, log>>
              ELSE /\ Begin(p, "kafka:migrate", "migrate:exec")
                   /\ idx' = [idx EXCEPT ![p] = 1]
                   /\ calls' = [calls EXCEPT ![p] =
                                   [i \in 1..Len(loaded) |-> CreateTopic(loaded[i])]]
                   /\ log' = [log EXCEPT ![p] = <<Out("Creating the topic")>>]
    /\ UNCHANGED <<shared, containerLocals, topicsLocals, submitted, fnVars>>

\* topics.txt is read; the loop awaits the creation of the first topic, or
\* ends at once when the file holds no topic.
MigrateBegun(p) ==
    /\ fileExists
    /\ LET loaded == LoadLines(fileContent)
       IN  /\ topics' = [topics EXCEPT ![p] = loaded]
           /\ IF loaded = <<>>
              THEN /\ Begin(p, "kafka:migrate", "done")
                   /\ UNCHANGED <<idx, calls, log>>
              ELSE /\ Begin(p, "kafka:migrate", "migrate:exec")
                   /\ idx' = [idx EXCEPT ![p] = 1]
                   /\ calls' = [calls EXCEPT ![p] = <<CreateTopic(loaded[1])>>]
                   /\ log' = [log EXCEPT ![p] = <<Out("Creating the topic")>>]
    /\ UNCHANGED <<shared, containerLocals, topicsLocals, submitted, fnVars>>

\* The creation resolves: `Topic ... created successfully` is printed and the
\* loop awaits the next topic's creation, or ends.
MigrateLoopStep(p) ==
    /\ pc[p] = "migrate:exec"
    /\ IF idx[p] < Len(topics[p])
       THEN /\ idx' = [idx EXCEPT ![p] = idx[p] + 1]
            /\ calls' = [calls EXCEPT ![p] =
                            Append(calls[p], CreateTopic(topics[p][idx[p] + 1]))]
            /\ log' = [log EXCEPT ![p] = log[p] \o
                          <<Out("Topic created successfully"), Out("Creating the topic")>>]
            /\ UNCHANGED pc
       ELSE /\ Finish(p, <<Out("Topic created successfully")>>)
            /\ UNCHANGED <<idx, calls>>
    /\ UNCHANGED <<cmd, containerLocals, topicsLocals, topics, atInvoke,
                   submitted, fnVars>>

\* The creation resolves.  Whether the broker accepts a topic is not tracked
\* here: any request may resolve, and any may reject (MigrateCreateFailed).
MigrateCreated(p) ==
    /\ MigrateLoopStep(p)
    /\ UNCHANGED shared

\* A seeded fault: the try/catch sits inside the loop, so a failed creation is
\* reported and the loop goes on to the next topic.
MigrateCreateFailed_Continues(p) ==
    /\ pc[p] = "migrate:exec"
    /\ IF idx[p] < Len(topics[p])
       THEN /\ idx' = [idx EXCEPT ![p] = idx[p] + 1]
            /\ calls' = [calls EXCEPT ![p] =
                            Append(calls[p], CreateTopic(topics[p][idx[p] + 1]))]
            /\ log' = [log EXCEPT ![p] = log[p] \o
                          <<Err("error.message"), Out("Creating the topic")>>]
            /\ UNCHANGED pc
       ELSE /\ Finish(p, <<Err("error.message")>>)
            /\ UNCHANGED <<idx, calls>>
    /\ UNCHANGED <<shared, cmd, containerLocals, topicsLocals, topics, atInvoke,
                   submitted, fnVars>>

\* The creation rejects: the catch around the loop prints the error and the
\* action returns.
MigrateCreateFailed(p) ==
    /\ pc[p] = "migrate:exec"
    /\ Catch(p)

(* ------------------------------ processes ------------------------------- *)

\* The process exits; a later invocation is a fresh process.
Exit(p) ==
    /\ pc[p] = "done"
    /\ pc' = [pc EXCEPT ![p] = "idle"]
    /\ cmd' = [cmd EXCEPT ![p] = "-"]
    /\ stdout' = [stdout EXCEPT ![p] = Unassigned]
    /\ isRunning' = [isRunning EXCEPT ![p] = Unassigned]
    /\ newTopics' = [newTopics EXCEPT ![p] = <<>>]
    /\ existingTopics' = [existingTopics EXCEPT ![p] = <<>>]
    /\ combinedTopics' = [combinedTopics EXCEPT ![p] = <<>>]
    /\ topicsList' = [topicsList EXCEPT ![p] = <<>>]
    /\ topics' = [topics EXCEPT ![p] = <<>>]
    /\ idx' = [idx EXCEPT ![p] = 0]
    /\ calls' = [calls EXCEPT ![p] = <<>>]
    /\ log' = [log EXCEPT ![p] = <<>>]
    /\ atInvoke' = [atInvoke EXCEPT ![p] = NoSnapshot]
    /\ UNCHANGED <<shared, submitted, fnVars>>

\* The command line names one command.
Invoke(p) ==
    \/ CreateInvoke(p)
    \/ StartInvoke(p)
    \/ TopicsInvoke(p)
    \/ MigrateNoFile(p)
    \/ MigrateReadThrew(p)
    \/ MigrateBegun(p)

\* A pending await of p settles.
Settle(p) ==
    \/ CreateProbed(p)
    \/ CreateRan(p)
    \/ CreateRunFailed(p)
    \/ CreateProbeFailed(p)
    \/ StartProbed(p)
    \/ StartProbedRunning(p)
    \/ StartStarted(p)
    \/ StartExecFailed(p)
    \/ TopicsAnswered(p)
    \/ TopicsRead(p)
    \/ TopicsWritten(p)
    \/ TopicsFailed(p)
    \/ MigrateCreated(p)
    \/ MigrateCreateFailed(p)
    \/ Exit(p)

\* A new process takes the lowest free slot (slots are interchangeable).
FreeSlot(p) == pc[p] = "idle" /\ \A q \in 1..(p - 1) : pc[q] # "idle"

\* Non-overlapping invocations: a command is invoked only when no other runs.
Next == \E p \in Procs : (AllIdle /\ FreeSlot(p) /\ Invoke(p)) \/ Settle(p)

Spec == Init /\ [][Next]_vars

(* ------------------- Merge, Save and Load on their own ------------------ *)

\* Topic names as kafka:topics produces them: trimmed, non-empty, one line.
TopicNames == {<<"a">>, <<"b">>, <<"a", "b">>}

\* Trimmed candidates: a topic name, or the empty string.
Candidates == TopicNames \cup {<<>>}

SeqsUpTo(S, n) == UNION {[1..k -> S] : k \in 0..n}

\* Registries: ordered, duplicate-free lists of topic names.
Registries ==
    {r \in SeqsUpTo(TopicNames, MaxListLen) :
        \A i, j \in 1..Len(r) : i # j => r[i] # r[j]}

Incomings == SeqsUpTo(Candidates, MaxListLen)

InitFn ==
    /\ container = "Absent"
    /\ fileExists = FALSE
    /\ fileContent = <<>>
    /\ brokerTopics = {}
    /\ pc = [p \in Procs |-> "idle"]
    /\ cmd = [p \in Procs |-> "-"]
    /\ stdout = [p \in Procs |-> Unassigned]
    /\ isRunning = [p \in Procs |-> Unassigned]
    /\ newTopics = [p \in Procs |-> <<>>]
    /\ existingTopics = [p \in Procs |-> <<>>]
    /\ combinedTopics = [p \in Procs |-> <<>>]
    /\ topicsList = [p \in Procs |-> <<>>]
    /\ topics = [p \in Procs |-> <<>>]
    /\ idx = [p \in Procs |-> 0]
    /\ calls = [p \in Procs |-> <<>>]
    /\ log = [p \in Procs |-> <<>>]
    /\ atInvoke = [p \in Procs |-> NoSnapshot]
    /\ submitted = <<>>
    /\ fnStep = "args"
    /\ fnExisting \in Registries
    /\ fnIncoming \in Incomings
    /\ fnResult = <<>>

procVars == <<pc, cmd, containerLocals, topicsLocals, migrateLocals, calls, log,
              atInvoke, submitted>>

\* combinedTopics = Array.from(new Set([...existingTopics, ...newTopics]))
FnMerge ==
    /\ fnStep = "args"
    /\ fnStep' = "Merge"
    /\ fnResult' = Merge(fnExisting, fnIncoming)
    /\ UNCHANGED <<shared, procVars, fnExisting, fnIncoming>>

\* Save: fs.writeFile(topicsFile, list.join('\n'), 'utf8')
FnSave ==
    /\ fnStep = "args"
    /\ fnStep' = "Save"
    /\ fileExists' = TRUE
    /\ fileContent' = JoinLines(fnExisting)
    /\ UNCHANGED <<container, brokerTopics, procVars, fnExisting, fnIncoming, fnResult>>

\* Load: the file's content .split('\n').filter(Boolean), [] without a file
FnLoad ==
    /\ fnStep = "Save"
    /\ fnStep' = "Load"
    /\ fnResult' = IF fileExists THEN LoadLines(fileContent) ELSE <<>>
    /\ UNCHANGED <<shared, procVars, fnExisting, fnIncoming>>

NextFn == FnMerge \/ FnSave \/ FnLoad

SpecFn == InitFn /\ [][NextFn]_vars

(* ------------------- two kafka:topics runs at once ---------------------- *)

\* No command is running and none has run.
NothingRan ==
    /\ pc = [p \in Procs |-> "idle"]
    /\ cmd = [p \in Procs |-> "-"]
    /\ stdout = [p \in Procs |-> Unassigned]
    /\ isRunning = [p \in Procs |-> Unassigned]
    /\ newTopics = [p \in Procs |-> <<>>]
    /\ existingTopics = [p \in Procs |-> <<>>]
    /\ combinedTopics = [p \in Procs |-> <<>>]
    /\ topicsList = [p \in Procs |-> <<>>]
    /\ topics = [p \in Procs |-> <<>>]
    /\ idx = [p \in Procs |-> 0]
    /\ calls = [p \in Procs |-> <<>>]
    /\ log = [p \in Procs |-> <<>>]
    /\ atInvoke = [p \in Procs |-> NoSnapshot]
    /\ fnStep = "-"
    /\ fnExisting = <<>>
    /\ fnIncoming = <<>>
    /\ fnResult = <<>>

\* Longest answer typed when two kafka:topics runs overlap (characters).
MaxRaceInputLen == 1

RaceInputs == {input \in Inputs : Len(input) <= MaxRaceInputLen}

\* The two processes whose runs overlap.
RaceProcs == {1, 2}

\* topics.txt is absent, or holds a registry earlier kafka:topics runs saved.
InitRace ==
    /\ container = "Absent"
    /\ brokerTopics = {}
    /\ \/ fileExists = FALSE /\ fileContent = <<>> /\ submitted = <<>>
       \/ \E r \in Registries :
            /\ Len(JoinLines(r)) <= MaxFileLen
            /\ fileExists = TRUE
            /\ fileContent = JoinLines(r)
            /\ submitted = r
    /\ NothingRan

\* The prompt resolves with a short line.
TopicsAnsweredShort(p) ==
    /\ pc[p] = "topics:prompt"
    /\ \E input \in RaceInputs : TopicsAnswer(p, input)

\* Each of the two processes runs kafka:topics once; nothing orders their
\* awaits, so their steps interleave freely.
NextRace ==
    \E p \in RaceProcs :
        \/ TopicsInvoke(p)
        \/ TopicsAnsweredShort(p)
        \/ TopicsRead(p)
        \/ TopicsWritten(p)
        \/ TopicsFailed(p)

SpecRace == InitRace /\ [][NextRace]_vars

(* ------------- kafka:migrate against a broker that rejects -------------- *)

\* The container runs, the broker holds no topic, and topics.txt holds a
\* registry earlier kafka:topics runs saved.
InitBroker ==
    /\ container = "Running"
    /\ brokerTopics = {}
    /\ \E r \in Registries :
         /\ fileExists = TRUE
         /\ fileContent = JoinLines(r)
         /\ submitted = r
    /\ NothingRan

\* The creation resolves, which this broker does for a topic it does not hold
\* yet; the broker holds the topic from then on.
MigrateCreatedOnBroker(p) ==
    /\ MigrateLoopStep(p)
    /\ topics[p][idx[p]] \notin brokerTopics
    /\ brokerTopics' = brokerTopics \cup {topics[p][idx[p]]}
    /\ UNCHANGED <<container, fileExists, fileContent>>

\* Non-overlapping kafka:migrate runs.  A creation may reject at any time
\* (MigrateCreateFailed), and always rejects for a topic the broker holds.
NextBroker ==
    \E p \in Procs :
        \/ AllIdle /\ FreeSlot(p) /\ MigrateBegun(p)
        \/ MigrateCreatedOnBroker(p)
        \/ MigrateCreateFailed(p)
        \/ Exit(p)

SpecBroker == InitBroker /\ [][NextBroker]_vars

(* --------------- topics.txt as anyone may have left it ------------------ *)

\* Longest topics.txt found on disk (characters).
MaxAnyFileLen == 3

\* Characters of a topics.txt edited by hand.
FileChars == {"a", " ", NL}

AnyFiles == UNION {[1..n -> FileChars] : n \in 0..MaxAnyFileLen}

\* topics.txt is absent, or holds any text.
InitAnyFile ==
    /\ container = "Running"
    /\ brokerTopics = {}
    /\ submitted = <<>>
    /\ \/ fileExists = FALSE /\ fileContent = <<>>
       \/ fileExists = TRUE /\ fileContent \in AnyFiles
    /\ NothingRan

\* Non-overlapping runs of the two commands that read topics.txt.
NextAnyFile ==
    \E p \in Procs :
        \/ /\ AllIdle
           /\ FreeSlot(p)
           /\ \/ TopicsInvoke(p)
              \/ MigrateNoFile(p)
              \/ MigrateReadThrew(p)
              \/ MigrateBegun(p)
        \/ TopicsAnsweredShort(p)
        \/ TopicsRead(p)
        \/ TopicsWritten(p)
        \/ TopicsFailed(p)
        \/ MigrateCreated(p)
        \/ MigrateCreateFailed(p)
        \/ Exit(p)

SpecAnyFile == InitAnyFile /\ [][NextAnyFile]_vars

(* ------------------- two kafka:create runs at once ---------------------- *)

\* Two processes run kafka:create again and again, starting with no container;
\* nothing orders their awaits, so their steps interleave freely.
NextCreateRace ==
    \E p \in RaceProcs :
        \/ CreateInvoke(p)
        \/ CreateProbed(p)
        \/ CreateRan(p)
        \/ CreateRunFailed(p)
        \/ CreateProbeFailed(p)
        \/ Exit(p)

SpecCreateRace == Init /\ [][NextCreateRace]_vars

(* -------------------------------- claims -------------------------------- *)

\* p ran kafka:topics to its success message.
TopicsSucceeded(p) ==
    /\ cmd[p] = "kafka:topics"
    /\ pc[p] = "done"
    /\ log[p] = <<Out("Topics file updated successfully")>>

\* The content has an empty line: it starts or ends with a newline, or holds
\* two newlines in a row.
HasEmptyLine(content) == content # <<>> /\ <<>> \in Range(Split(content, NL))

\* C1: after every completed kafka:topics run of a sequence that started
\* without topics.txt, the file is exactly the names submitted so far (the
\* trimmed, non-empty candidates), each once, in first-seen order, one per line.
C1_FileIsUnionOfSubmitted ==
    \A p \in Procs :
        TopicsSucceeded(p) => fileExists /\ fileContent = JoinLines(submitted)

\* C7: candidates that are empty after trimming are dropped before the merge,
\* so the list a kafka:topics run merges and writes has no empty entry and the
\* file it writes has no empty line.
C7_EmptyCandidatesDropped ==
    \A p \in Procs :
        TopicsSucceeded(p) =>
            /\ <<>> \notin Range(combinedTopics[p])
            /\ ~HasEmptyLine(fileContent)

\* C2: when the existence probe of kafka:create reports a container, no
\* `docker run` is dispatched, the container is left as it was, and the only
\* output is the informational "already exists" (nothing on stderr).
C2_CreateNoOpWhenExists ==
    \A p \in Procs :
        (cmd[p] = "kafka:create" /\ stdout[p] # Unassigned /\ Trim(stdout[p]) # <<>>) =>
            /\ atInvoke[p].container \in {"Stopped", "Running"}
            /\ calls[p] = <<PsAll>>
            /\ container = atInvoke[p].container
            /\ pc[p] = "done"
            /\ log[p] = <<Out("already exists")>>

C2_Witness ==
    \E p \in Procs :
        /\ cmd[p] = "kafka:create"
        /\ atInvoke[p].container = "Running"
        /\ stdout[p] = ContainerId
        /\ pc[p] = "done"

\* C3: kafka:start invoked while the container is Absent never dispatches
\* `docker start` or `docker run` and leaves the container Absent; once its
\* existence probe has answered it has returned, having printed only the
\* error "The container does not exist".
C3_StartOnAbsentRejected ==
    \A p \in Procs :
        (cmd[p] = "kafka:start" /\ atInvoke[p].container = "Absent") =>
            /\ DockerStart \notin Range(calls[p])
            /\ DockerRun \notin Range(calls[p])
            /\ container = "Absent"
            /\ stdout[p] # Unassigned =>
                   /\ pc[p] = "done"
                   /\ calls[p] = <<PsAll>>
                   /\ log[p] = <<Err("The container does not exist")>>

C3_Witness ==
    \E p \in Procs :
        /\ cmd[p] = "kafka:start"
        /\ atInvoke[p].container = "Absent"
        /\ stdout[p] = <<>>
        /\ pc[p] = "done"
        /\ log[p] = <<Err("The container does not exist")>>

\* C4: kafka:start invoked while the container is Running never dispatches
\* `docker start` and leaves it Running; once its running probe has answered
\* it has returned, having printed only the informational "already running".
C4_StartOnRunningNoOp ==
    \A p \in Procs :
        (cmd[p] = "kafka:start" /\ atInvoke[p].container = "Running") =>
            /\ DockerStart \notin Range(calls[p])
            /\ container = "Running"
            /\ isRunning[p] # Unassigned =>
                   /\ pc[p] = "done"
                   /\ calls[p] = <<PsAll, PsRunning>>
                   /\ log[p] = <<Out("already running")>>

C4_Witness ==
    \E p \in Procs :
        /\ cmd[p] = "kafka:start"
        /\ atInvoke[p].container = "Running"
        /\ isRunning[p] = ContainerId
        /\ pc[p] = "done"

\* The entries of a log printed with console.error.
Errors(l) == SelectSeq(l, LAMBDA e : e.stream = "err")

\* The creations a log reports as done before its first error: the failed
\* request is the one after them.
RECURSIVE CreatedBeforeError(_)
CreatedBeforeError(l) ==
    IF l = <<>> \/ Head(l).stream = "err" THEN 0
    ELSE (IF Head(l) = Out("Topic created successfully") THEN 1 ELSE 0)
         + CreatedBeforeError(Tail(l))

\* C5: a kafka:migrate run in which the creation of the k-th registry topic
\* failed has issued exactly one creation request for each of topics 1..k, in
\* order, none for a later topic, and printed exactly one error, last.
C5_MigrateHaltsAtFirstFailure ==
    \A p \in Procs :
        (cmd[p] = "kafka:migrate" /\ pc[p] = "done" /\ calls[p] # <<>>
           /\ Errors(log[p]) # <<>>) =>
            LET k == CreatedBeforeError(log[p]) + 1
            IN  /\ topics[p] = LoadLines(atInvoke[p].fileContent)
                /\ k <= Len(topics[p])
                /\ calls[p] = [i \in 1..k |-> CreateTopic(topics[p][i])]
                /\ Len(Errors(log[p])) = 1
                /\ log[p][Len(log[p])] = Err("error.message")

C5_Witness ==
    \E p \in Procs :
        /\ cmd[p] = "kafka:migrate"
        /\ pc[p] = "done"
        /\ Len(topics[p]) = 2
        /\ calls[p] = <<CreateTopic(topics[p][1])>>
        /\ log[p] = <<Out("Creating the topic"), Err("error.message")>>

\* C6: kafka:migrate invoked without topics.txt returns at once, having
\* printed only the error "The topics.txt file does not exist", issued no
\* creation request, and not created the file.
C6_MigrateWithoutFile ==
    \A p \in Procs :
        (cmd[p] = "kafka:migrate" /\ ~atInvoke[p].fileExists) =>
            /\ pc[p] = "done"
            /\ log[p] = <<Err("The topics.txt file does not exist")>>
            /\ calls[p] = <<>>
            /\ ~fileExists

C6_Witness ==
    \E p \in Procs :
        /\ cmd[p] = "kafka:migrate"
        /\ ~atInvoke[p].fileExists
        /\ pc[p] = "done"

\* E, then the elements of I that are not in E, each once, in the order of
\* their first appearance in I.
RECURSIVE Fresh(_, _)
Fresh(I, seen) ==
    IF I = <<>> THEN <<>>
    ELSE IF Head(I) \in seen THEN Fresh(Tail(I), seen)
    ELSE <<Head(I)>> \o Fresh(Tail(I), seen \cup {Head(I)})

StableUnion(E, I) == E \o Fresh(I, Range(E))

\* C8: for every registry E and every incoming list I, Merge(E, I) is E
\* followed by the elements of I not in E, each once, in order of first
\* appearance in I; nothing is sorted or reordered.
C8_MergeIsStableUnion ==
    fnStep = "Merge" => fnResult = StableUnion(fnExisting, fnIncoming)

\* Merge(["a","b"], ["b","ab","a"]) = ["a","b","ab"]
C8_Witness ==
    /\ fnStep = "Merge"
    /\ fnExisting = << <<"a">>, <<"b">> >>
    /\ fnIncoming = << <<"b">>, <<"a", "b">>, <<"a">> >>
    /\ fnResult = << <<"a">>, <<"b">>, <<"a", "b">> >>

\* C9: for the registry L a kafka:topics run loaded, Merge(L, L) = L; and when
\* the submitted topics are exactly those of L, the merged list is L and the
\* registry loaded from the file after the run is L.
C9_MergeIdempotent ==
    \A p \in Procs :
        (cmd[p] = "kafka:topics"
           /\ (pc[p] = "topics:writeFile" \/ TopicsSucceeded(p))) =>
            /\ Merge(existingTopics[p], existingTopics[p]) = existingTopics[p]
            /\ Range(newTopics[p]) = Range(existingTopics[p]) =>
                   /\ combinedTopics[p] = existingTopics[p]
                   /\ TopicsSucceeded(p) =>
                          fileExists /\ LoadLines(fileContent) = existingTopics[p]

C9_Witness ==
    \E p \in Procs :
        /\ TopicsSucceeded(p)
        /\ Len(existingTopics[p]) = 2
        /\ Range(newTopics[p]) = Range(existingTopics[p])
        /\ newTopics[p] # existingTopics[p]

\* C10: for every registry L (the empty one included), loading the file that
\* saving L wrote returns L, in the same order.
C10_SaveLoadRoundTrip ==
    fnStep = "Load" => fnResult = fnExisting

C10_Witness ==
    /\ fnStep = "Load"
    /\ Len(fnExisting) = 3
    /\ fileContent = JoinLines(fnExisting)
    /\ fnResult = fnExisting


\* C11: a `docker start` is dispatched only by kafka:start invoked on a Stopped
\* container, and then exactly once, after both probes; kafka:start on a
\* Stopped container dispatches it once both probes have answered; when the
\* start succeeds the container is Running and "started" is reported.
C11_StartOnlyFromStopped ==
    \A p \in Procs :
        /\ DockerStart \in Range(calls[p]) =>
               /\ cmd[p] = "kafka:start"
               /\ atInvoke[p].container = "Stopped"
               /\ calls[p] = <<PsAll, PsRunning, DockerStart>>
        /\ (cmd[p] = "kafka:start" /\ atInvoke[p].container = "Stopped"
              /\ isRunning[p] # Unassigned) =>
               calls[p] = <<PsAll, PsRunning, DockerStart>>
        /\ (cmd[p] = "kafka:start" /\ pc[p] = "done" /\ DockerStart \in Range(calls[p])
              /\ Errors(log[p]) = <<>>) =>
               /\ container = "Running"
               /\ log[p] = <<Out("Starting the container"), Out("started")>>

C11_Witness ==
    \E p \in Procs :
        /\ cmd[p] = "kafka:start"
        /\ atInvoke[p].container = "Stopped"
        /\ calls[p] = <<PsAll, PsRunning, DockerStart>>
        /\ pc[p] = "done"
        /\ container = "Running"
        /\ log[p] = <<Out("Starting the container"), Out("started")>>

\* C12: no step of kafka:create or kafka:start moves the container from
\* Running to Stopped or Absent, or from Stopped to Absent.
C12_LifecycleMonotone ==
    [][/\ container = "Running" => container' = "Running"
       /\ container = "Stopped" => container' # "Absent"]_vars

C12_Witness ==
    \E p \in Procs :
        /\ cmd[p] = "kafka:create"
        /\ atInvoke[p].container = "Stopped"
        /\ pc[p] = "done"
        /\ container = "Stopped"


\* C14: in non-overlapping kafka:create and kafka:start runs, a `docker run` is
\* dispatched only after the run's own probe observed Absent, a `docker start`
\* only after its probes observed Stopped; each is dispatched while the
\* container is in that state; a successful creation leaves the container
\* present for good, so none is dispatched after it, and none is started
\* while Running.
C14_DispatchOnlyAfterProbe ==
    /\ [](\A p \in Procs :
            /\ DockerRun \in Range(calls[p]) =>
                   /\ cmd[p] = "kafka:create"
                   /\ stdout[p] = <<>>
                   /\ calls[p] = <<PsAll, DockerRun>>
            /\ DockerStart \in Range(calls[p]) =>
                   /\ cmd[p] = "kafka:start"
                   /\ stdout[p] = ContainerId
                   /\ isRunning[p] = <<>>
                   /\ calls[p] = <<PsAll, PsRunning, DockerStart>>)
    /\ [][\A p \in Procs :
            /\ (DockerRun \notin Range(calls[p]) /\ DockerRun \in Range(calls'[p])) =>
                   container = "Absent"
            /\ (DockerStart \notin Range(calls[p]) /\ DockerStart \in Range(calls'[p])) =>
                   container = "Stopped"
            /\ (pc[p] = "create:run" /\ log'[p] = log[p] \o <<Out("created and running")>>) =>
                   container' = "Running"
            /\ container # "Absent" => container' # "Absent"]_vars

C14_Witness ==
    \E p \in Procs :
        /\ cmd[p] = "kafka:create"
        /\ stdout[p] = <<>>
        /\ calls[p] = <<PsAll, DockerRun>>
        /\ pc[p] = "done"
        /\ container = "Running"
        /\ log[p] = <<Out("Creating the container"), Out("created and running")>>

\* s is a prefix of t.
IsPrefix(s, t) == Len(s) <= Len(t) /\ s = SubSeq(t, 1, Len(s))

\* The number of creations a log reports as done.
Completed(l) == Len(SelectSeq(l, LAMBDA e : e = Out("Topic created successfully")))

\* C15: kafka:migrate issues the creation requests one at a time in registry
\* order: while it runs, the requests issued are those of the first idx
\* entries and all but the last have completed; each step issues one more
\* request as one more completes; a run that printed no error has issued
\* exactly one request per registry entry and all have completed.
C15_MigrateOneAtATime ==
    /\ [](\A p \in Procs :
            cmd[p] = "kafka:migrate" =>
                /\ Len(calls[p]) - Completed(log[p]) \in {0, 1}
                /\ pc[p] = "migrate:exec" =>
                       /\ idx[p] \in 1..Len(topics[p])
                       /\ calls[p] = [i \in 1..idx[p] |-> CreateTopic(topics[p][i])]
                       /\ Completed(log[p]) = idx[p] - 1
                /\ (pc[p] = "done" /\ atInvoke[p].fileExists /\ Errors(log[p]) = <<>>) =>
                       /\ topics[p] = LoadLines(atInvoke[p].fileContent)
                       /\ calls[p] = [i \in 1..Len(topics[p]) |-> CreateTopic(topics[p][i])]
                       /\ Completed(log[p]) = Len(topics[p]))
    /\ [][\A p \in Procs :
            (pc[p] = "migrate:exec" /\ calls'[p] # calls[p] /\ pc'[p] # "idle") =>
                /\ Len(calls'[p]) = Len(calls[p]) + 1
                /\ Completed(log'[p]) = Completed(log[p]) + 1]_vars

C15_Witness ==
    \E p \in Procs :
        /\ cmd[p] = "kafka:migrate"
        /\ pc[p] = "done"
        /\ Len(topics[p]) = 2
        /\ calls[p] = <<CreateTopic(topics[p][1]), CreateTopic(topics[p][2])>>
        /\ Errors(log[p]) = <<>>

\* C16: within one kafka:create or kafka:start run every docker command is
\* issued at most once, in the handler's order; once an external call has
\* failed the run is over, it has printed exactly one error, its last line,
\* and it issues no further call: a failed probe is never followed by a
\* `docker run` or `docker start`.
C16_NoRetries ==
    /\ [](\A p \in Procs :
            /\ cmd[p] = "kafka:create" => IsPrefix(calls[p], <<PsAll, DockerRun>>)
            /\ cmd[p] = "kafka:start" =>
                   IsPrefix(calls[p], <<PsAll, PsRunning, DockerStart>>)
            /\ (cmd[p] \in {"kafka:create", "kafka:start"}
                  /\ Err("error.message") \in Range(log[p])) =>
                   /\ pc[p] = "done"
                   /\ Errors(log[p]) = <<Err("error.message")>>
                   /\ log[p][Len(log[p])] = Err("error.message"))
    /\ [][\A p \in Procs :
            (cmd[p] \in {"kafka:create", "kafka:start"} /\ Errors(log[p]) # <<>>
               /\ pc'[p] # "idle") => calls'[p] = calls[p]]_vars

C16_Witness ==
    \E p \in Procs :
        /\ cmd[p] = "kafka:start"
        /\ pc[p] = "done"
        /\ calls[p] = <<PsAll, PsRunning>>
        /\ log[p] = <<Err("error.message")>>

\* C17: topics.txt changes only in the step in which a kafka:topics run's
\* fs.writeFile resolves; kafka:migrate, kafka:create and kafka:start leave
\* its existence and content as they were when the run was invoked.
C17_OnlyTopicsWritesFile ==
    /\ [](\A p \in Procs :
            cmd[p] \in {"kafka:migrate", "kafka:create", "kafka:start"} =>
                /\ fileExists = atInvoke[p].fileExists
                /\ fileContent = atInvoke[p].fileContent)
    /\ [][(fileExists' # fileExists \/ fileContent' # fileContent) =>
            \E p \in Procs : cmd[p] = "kafka:topics" /\ pc[p] = "topics:writeFile"
                                /\ pc'[p] = "done"]_vars

C17_Witness ==
    \E p \in Procs :
        /\ cmd[p] = "kafka:migrate"
        /\ pc[p] = "done"
        /\ Len(topics[p]) = 2
        /\ Len(calls[p]) = 2
        /\ Errors(log[p]) # <<>>
        /\ fileExists
        /\ fileContent = atInvoke[p].fileContent


\* C13: two interleaved kafka:topics runs are unguarded.  Each successful
\* fs.writeFile replaces the whole file by the list its run merged from what
\* it had read, whatever the file holds by then: the last write wins.
C13_LastWriteWins ==
    [][\A p \in RaceProcs :
         (pc[p] = "topics:writeFile" /\ pc'[p] = "done"
            /\ log'[p] = <<Out("Topics file updated successfully")>>) =>
             /\ fileExists'
             /\ fileContent' = JoinLines(Merge(existingTopics[p], newTopics[p]))]_vars

\* The lost update: both runs read the same existing file and reported
\* success, and a topic one of them submitted is not in the file.
C13_Witness ==
    /\ \A p \in RaceProcs : TopicsSucceeded(p) /\ atInvoke[p].fileExists
    /\ \A p, q \in RaceProcs : existingTopics[p] = existingTopics[q]
    /\ \E p \in RaceProcs :
         \E name \in Range(newTopics[p]) :
             name # <<>> /\ name \notin Range(LoadLines(fileContent))


\* C18: kafka:migrate keeps no progress between runs.  Every run's first
\* request is for the first entry of topics.txt, whatever the broker holds.
\* Against a broker that rejects an existing topic, a run that starts after
\* some topic was created issues that one request, creates nothing, and ends
\* with the error: the topics after the first are not attempted again.
C18_MigrateRestartsFromFirst ==
    \A p \in Procs :
        (cmd[p] = "kafka:migrate" /\ atInvoke[p].fileExists) =>
            LET loaded == LoadLines(atInvoke[p].fileContent)
                held == atInvoke[p].brokerTopics
            IN  /\ loaded # <<>> =>
                     /\ calls[p] # <<>>
                     /\ calls[p][1] = CreateTopic(loaded[1])
                /\ held # {} =>
                     /\ loaded[1] \in held
                     /\ calls[p] = <<CreateTopic(loaded[1])>>
                     /\ brokerTopics = held
                     /\ pc[p] = "done" =>
                          log[p] = <<Out("Creating the topic"), Err("error.message")>>

\* A re-run after a partial failure: of three topics the first was created,
\* the run asked for it again and ended with the error.
C18_Witness ==
    \E p \in Procs :
        /\ cmd[p] = "kafka:migrate"
        /\ pc[p] = "done"
        /\ Len(LoadLines(atInvoke[p].fileContent)) = 3
        /\ atInvoke[p].brokerTopics = {LoadLines(atInvoke[p].fileContent)[1]}
        /\ calls[p] = <<CreateTopic(LoadLines(atInvoke[p].fileContent)[1])>>
        /\ Errors(log[p]) # <<>>


\* An entry Load may return: not empty, no whitespace at either end.
TrimmedNonEmpty(e) == e # <<>> /\ Trim(e) = e

\* C19: Load returns the non-empty, trimmed lines of topics.txt, whatever the
\* file holds: every entry kafka:topics read and every entry kafka:migrate
\* read is non-empty and has no whitespace at either end, and with no file
\* kafka:topics goes on with the empty list and no error.
C19_LoadTrimmedNonEmpty ==
    \A p \in Procs :
        /\ \A i \in 1..Len(existingTopics[p]) : TrimmedNonEmpty(existingTopics[p][i])
        /\ \A i \in 1..Len(topics[p]) : TrimmedNonEmpty(topics[p][i])
        /\ (cmd[p] = "kafka:topics" /\ pc[p] = "topics:writeFile"
              /\ ~atInvoke[p].fileExists) =>
               existingTopics[p] = <<>> /\ log[p] = <<>>


\* Messages printed before an awaited call, while its outcome is open.
Progress ==
    {Out("Creating the container"), Out("Starting the container"),
     Out("Creating the topic")}

\* The log ends with an outcome, and holds at most one error, which is last.
EndsWithOutcome(l) ==
    /\ l # <<>>
    /\ l[Len(l)] \notin Progress
    /\ Len(Errors(l)) <= 1
    /\ Errors(l) # <<>> => l[Len(l)].stream = "err"

\* C20: whatever the external calls and file operations do, every run of
\* kafka:create, kafka:start, kafka:topics and kafka:migrate ends having
\* reported one final outcome: its last message is a success, a no-op notice
\* or the single error message.
C20_OneFinalOutcome ==
    \A p \in Procs : pc[p] = "done" => EndsWithOutcome(log[p])

\* The same, but for kafka:migrate over a topics.txt without topic lines.
C20_ExceptEmptyMigrate ==
    \A p \in Procs :
        (pc[p] = "done" /\ ~(cmd[p] = "kafka:migrate" /\ atInvoke[p].fileExists
                               /\ LoadLines(atInvoke[p].fileContent) = <<>>)) =>
            EndsWithOutcome(log[p])


\* The processes whose run began with no container and has dispatched
\* `docker run`.
Dispatched ==
    {p \in RaceProcs :
        atInvoke[p].container = "Absent" /\ DockerRun \in Range(calls[p])}

\* C21: of two interleaved kafka:create runs that start with no container,
\* at most one dispatches a container creation.
C21_AtMostOneCreation == Cardinality(Dispatched) <= 1

\* Both runs have dispatched `docker run` and neither request has resolved:
\* each probe answered before the other run's creation took effect.
C21_BothDispatched ==
    \A p \in RaceProcs : pc[p] = "create:run" /\ atInvoke[p].container = "Absent"

====
